---- MODULE Spec2Model ----
(***************************************************************************)
(* Adaptable symplectic recurrent neural network: the energy estimators    *)
(* (adaptable_HNN, adaptable_partial_HNN), the leapfrog cell and rollout   *)
(* (adaptable_sympRNN.step / step2 / forward) and the training loop        *)
(* (train_validate).                                                       *)
(*                                                                         *)
(* Tensors of shape (batch, 1) are sequences of integers indexed by the    *)
(* batch row; a tensor with a leading time axis is a sequence of such      *)
(* rows.  Real arithmetic is carried out over the integers: every network  *)
(* has one hidden layer of one neuron, and tanh is replaced by its         *)
(* piecewise-linear saturation, whose derivative is 1 inside the linear    *)
(* range and 0 outside.  Gradients are the chain-rule derivatives that     *)
(* torch.autograd.grad returns for that network.                           *)
(***************************************************************************)
EXTENDS Integers, Sequences, FiniteSets, TLC

\* ------------------------------------------------------------------ bounds
MaxVal == 1
MaxFinal == 2
MaxBatch == 2
MaxN == 4
MaxEpochs == 2
MaxTime == 2

Vals == (0 - MaxVal)..MaxVal
DtVals == {2, 4}

\* ----------------------------------------------------- tensor arithmetic
VAdd(a, b) == [i \in 1..Len(a) |-> a[i] + b[i]]
VScale(c, a) == [i \in 1..Len(a) |-> c * a[i]]
VNeg(a) == [i \in 1..Len(a) |-> 0 - a[i]]
Zeros(n) == [i \in 1..n |-> 0]
Half(dt) == dt \div 2

\* ------------------------------------------------------------ EnergyHead
Tanh(z) == IF z > 2 THEN 2 ELSE IF z < 0 - 2 THEN 0 - 2 ELSE z
dTanh(z) == IF z > 0 - 2 /\ z < 2 THEN 1 ELSE 0

\* adaptable_HNN.forward: H(q, p; params) and (-dH/dq, dH/dp).
HNN_forward(net, q, p, params, training) ==
  LET input == [i \in 1..Len(q) |-> <<q[i], p[i], params[i]>>]
      pre == [i \in 1..Len(q) |->
          net.wq * input[i][1] + net.wp * input[i][2]
          + net.wpar * input[i][3] + net.b1]
      H == [i \in 1..Len(q) |-> net.w2 * Tanh(pre[i]) + net.b2]
      dH_dq == [i \in 1..Len(q) |-> net.w2 * dTanh(pre[i]) * net.wq]
      dH_dp == [i \in 1..Len(q) |-> net.w2 * dTanh(pre[i]) * net.wp]
  IN  IF training
      THEN [E |-> H, pdot |-> VNeg(dH_dq), qdot |-> dH_dp, graph |-> TRUE]
      ELSE [E |-> H, pdot |-> VNeg(dH_dq), qdot |-> dH_dp, graph |-> FALSE]

\* Variant: the inference branch of the potential network returns +dV/dq.
partial_HNN_forward_sign(net, qp, params, training) ==
  IF net.potential
  THEN LET pre == [i \in 1..Len(qp) |->
               net.wx * qp[i] + net.wpar * params[i] + net.b1]
           V == [i \in 1..Len(qp) |-> net.w2 * Tanh(pre[i]) + net.b2]
           dH_dq == [i \in 1..Len(qp) |-> net.w2 * dTanh(pre[i]) * net.wx]
       IN  IF training
           THEN [E |-> V, g |-> VNeg(dH_dq), graph |-> TRUE]
           ELSE [E |-> V, g |-> dH_dq, graph |-> FALSE]
  ELSE LET pre == [i \in 1..Len(qp) |-> net.wx * qp[i] + net.b1]
           K == [i \in 1..Len(qp) |-> net.w2 * Tanh(pre[i]) + net.b2]
           dH_dp == [i \in 1..Len(qp) |-> net.w2 * dTanh(pre[i]) * net.wx]
       IN  [E |-> K, g |-> dH_dp, graph |-> training]

\* adaptable_partial_HNN.forward: V(q; params) with -dV/dq when the potential
\* flag is set, K(p) with dK/dp otherwise (params is then ignored).
partial_HNN_forward(net, qp, params, training) ==
  IF net.potential
  THEN LET input == [i \in 1..Len(qp) |-> <<qp[i], params[i]>>]
           pre == [i \in 1..Len(qp) |->
               net.wx * input[i][1] + net.wpar * input[i][2] + net.b1]
           V == [i \in 1..Len(qp) |-> net.w2 * Tanh(pre[i]) + net.b2]
           dH_dq == [i \in 1..Len(qp) |-> net.w2 * dTanh(pre[i]) * net.wx]
       IN  IF training
           THEN [E |-> V, g |-> VNeg(dH_dq), graph |-> TRUE]
           ELSE [E |-> V, g |-> VNeg(dH_dq), graph |-> FALSE]
  ELSE LET pre == [i \in 1..Len(qp) |-> net.wx * qp[i] + net.b1]
           K == [i \in 1..Len(qp) |-> net.w2 * Tanh(pre[i]) + net.b2]
           dH_dp == [i \in 1..Len(qp) |-> net.w2 * dTanh(pre[i]) * net.wx]
       IN  IF training
           THEN [E |-> K, g |-> dH_dp, graph |-> TRUE]
           ELSE [E |-> K, g |-> dH_dp, graph |-> FALSE]

\* ------------------------------------------------- SymplecticIntegratorCell
\* Each cell result carries, besides (H, q_next, p_next), the list of
\* estimator invocations it made, in order, and whether the gradients it
\* used retained their graph.
CallK(p) == <<"K", p>>
CallV(q, params) == <<"V", q, params>>
CallH(q, p, params) == <<"H", q, p, params>>

\* Variant: the momentum update takes the potential gradient at the incoming
\* q instead of q_half.
step_grad_at_q(M, q, p, params, training) ==
  LET r1 == partial_HNN_forward(M.K_net, p, params, training)
      q_half == VAdd(q, VScale(Half(M.dt), r1.g))
      r2 == partial_HNN_forward(M.V_net, q, params, training)
      p_next == VAdd(p, VScale(M.dt, r2.g))
      r3 == partial_HNN_forward(M.K_net, p_next, params, training)
      q_next == VAdd(q_half, VScale(Half(M.dt), r3.g))
      r4 == partial_HNN_forward(M.V_net, q_next, params, training)
  IN  [H |-> VAdd(r3.E, r4.E), q |-> q_next, p |-> p_next,
       calls |-> <<CallK(p), CallV(q, params), CallK(p_next),
                   CallV(q_next, params)>>,
       graph |-> r1.graph /\ r2.graph /\ r3.graph]

\* Variant: the second kinetic evaluation does not rebind K, so the energy
\* pairs K at the incoming p with V at q_next.
step_first_K(M, q, p, params, training) ==
  LET r1 == partial_HNN_forward(M.K_net, p, params, training)
      q_half == VAdd(q, VScale(Half(M.dt), r1.g))
      r2 == partial_HNN_forward(M.V_net, q_half, params, training)
      p_next == VAdd(p, VScale(M.dt, r2.g))
      r3 == partial_HNN_forward(M.K_net, p_next, params, training)
      q_next == VAdd(q_half, VScale(Half(M.dt), r3.g))
      r4 == partial_HNN_forward(M.V_net, q_next, params, training)
  IN  [H |-> VAdd(r1.E, r4.E), q |-> q_next, p |-> p_next,
       calls |-> <<CallK(p), CallV(q_half, params), CallK(p_next),
                   CallV(q_next, params)>>,
       graph |-> r1.graph /\ r2.graph /\ r3.graph]

step(M, q, p, params, training) ==
  IF training
  THEN LET r1 == partial_HNN_forward(M.K_net, p, params, TRUE)
           qdot == r1.g
           q_half == VAdd(q, VScale(Half(M.dt), qdot))
           r2 == partial_HNN_forward(M.V_net, q_half, params, TRUE)
           pdot_t == r2.g
           p_next == VAdd(p, VScale(M.dt, pdot_t))
           r3 == partial_HNN_forward(M.K_net, p_next, params, TRUE)
           K == r3.E
           qdot_t == r3.g
           q_next == VAdd(q_half, VScale(Half(M.dt), qdot_t))
           r4 == partial_HNN_forward(M.V_net, q_next, params, TRUE)
           V == r4.E
       IN  [H |-> VAdd(K, V), q |-> q_next, p |-> p_next,
            calls |-> <<CallK(p), CallV(q_half, params), CallK(p_next),
                        CallV(q_next, params)>>,
            graph |-> r1.graph /\ r2.graph /\ r3.graph]
  ELSE LET r1 == partial_HNN_forward(M.K_net, p, params, FALSE)
           q_half == VAdd(q, VScale(Half(M.dt), r1.g))
           r2 == partial_HNN_forward(M.V_net, q_half, params, FALSE)
           pdot == r2.g
           p_next == VAdd(p, VScale(M.dt, pdot))
           r3 == partial_HNN_forward(M.K_net, p_next, params, FALSE)
           K == r3.E
           qdot == r3.g
           q_next == VAdd(q_half, VScale(Half(M.dt), qdot))
           r4 == partial_HNN_forward(M.V_net, q_next, params, FALSE)
           V == r4.E
       IN  [H |-> VAdd(K, V), q |-> q_next, p |-> p_next,
            calls |-> <<CallK(p), CallV(q_half, params), CallK(p_next),
                        CallV(q_next, params)>>,
            graph |-> r1.graph /\ r2.graph /\ r3.graph]

\* Variant: the second position half-step reuses qdot of the first call.
step2_reuse_qdot(M, q, p, params, training) ==
  LET r1 == HNN_forward(M.HNN, q, p, params, training)
      q_half == VAdd(q, VScale(Half(M.dt), r1.qdot))
      r2 == HNN_forward(M.HNN, q_half, p, params, training)
      p_next == VAdd(p, VScale(M.dt, r2.pdot))
      r3 == HNN_forward(M.HNN, q_half, p_next, params, training)
      q_next == VAdd(q_half, VScale(Half(M.dt), r1.qdot))
  IN  [H |-> r1.E, q |-> q_next, p |-> p_next,
       calls |-> <<CallH(q, p, params), CallH(q_half, p, params),
                   CallH(q_half, p_next, params)>>,
       graph |-> r1.graph /\ r2.graph /\ r3.graph]

step2(M, q, p, params, training) ==
  IF training
  THEN LET r1 == HNN_forward(M.HNN, q, p, params, TRUE)
           H == r1.E
           qdot == r1.qdot
           q_half == VAdd(q, VScale(Half(M.dt), qdot))
           r2 == HNN_forward(M.HNN, q_half, p, params, TRUE)
           pdot_t == r2.pdot
           p_next == VAdd(p, VScale(M.dt, pdot_t))
           r3 == HNN_forward(M.HNN, q_half, p_next, params, TRUE)
           qdot_t == r3.qdot
           q_next == VAdd(q_half, VScale(Half(M.dt), qdot_t))
       IN  [H |-> H, q |-> q_next, p |-> p_next,
            calls |-> <<CallH(q, p, params), CallH(q_half, p, params),
                        CallH(q_half, p_next, params)>>,
            graph |-> r1.graph /\ r2.graph /\ r3.graph]
  ELSE LET r1 == HNN_forward(M.HNN, q, p, params, FALSE)
           H == r1.E
           qdot == r1.qdot
           q_half == VAdd(q, VScale(Half(M.dt), qdot))
           r2 == HNN_forward(M.HNN, q_half, p, params, FALSE)
           pdot_t == r2.pdot
           p_next == VAdd(p, VScale(M.dt, pdot_t))
           r3 == HNN_forward(M.HNN, q_half, p_next, params, FALSE)
           qdot_t == r3.qdot
           q_next == VAdd(q_half, VScale(Half(M.dt), qdot_t))
       IN  [H |-> H, q |-> q_next, p |-> p_next,
            calls |-> <<CallH(q, p, params), CallH(q_half, p, params),
                        CallH(q_half, p_next, params)>>,
            graph |-> r1.graph /\ r2.graph /\ r3.graph]

\* --------------------------------------------------------- TrajectoryRoller
\* Buffers q, p hold final+1 time slots (slot 1 is Python index 0), H holds
\* final slots; cells counts the integrator-cell invocations.
forward_alloc(q_initial, p_initial, final) ==
  LET batch == Len(q_initial)
  IN  [H |-> [t \in 1..final |-> Zeros(batch)],
       q |-> [t \in 1..(final + 1) |-> IF t = 1 THEN q_initial ELSE Zeros(batch)],
       p |-> [t \in 1..(final + 1) |-> IF t = 1 THEN p_initial ELSE Zeros(batch)],
       calls |-> <<>>,
       cells |-> 0]

forward_cell(M, q, p, params, training) ==
  IF M.separable
  THEN step(M, q, p, params, training)
  ELSE step2(M, q, p, params, training)

RECURSIVE forward_loop(_, _, _, _, _, _)
forward_loop(M, buf, params, final, training, t) ==
  IF t >= final
  THEN buf
  ELSE LET r == forward_cell(M, buf.q[t + 1], buf.p[t + 1], params, training)
       IN  forward_loop(M,
             [H |-> [buf.H EXCEPT ![t + 1] = r.H],
              q |-> [buf.q EXCEPT ![t + 2] = r.q],
              p |-> [buf.p EXCEPT ![t + 2] = r.p],
              calls |-> buf.calls \o r.calls,
              cells |-> buf.cells + 1],
             params, final, training, t + 1)

\* Variant: returns q[:-1], p[:-1] (the initial condition first).
forward_return_keep_initial(buf) ==
  [H |-> buf.H, q |-> SubSeq(buf.q, 1, Len(buf.q) - 1),
   p |-> SubSeq(buf.p, 1, Len(buf.p) - 1),
   calls |-> buf.calls, cells |-> buf.cells]

\* Variant: returns the whole buffers q, p.
forward_return_whole(buf) ==
  [H |-> buf.H, q |-> buf.q, p |-> buf.p,
   calls |-> buf.calls, cells |-> buf.cells]

forward_return(buf) ==
  [H |-> buf.H, q |-> Tail(buf.q), p |-> Tail(buf.p),
   calls |-> buf.calls, cells |-> buf.cells]

forward(M, q_initial, p_initial, params, final, training) ==
  forward_return(
    forward_loop(M, forward_alloc(q_initial, p_initial, final),
                 params, final, training, 0))

\* ------------------------------------------------------------------ state
VARIABLES
  pc,                \* position of the running call
  model,             \* the adaptable_sympRNN: flags, dt and estimator weights
  fargs,             \* arguments of the forward call
  fret,              \* what forward returned
  tv,                \* arguments of train_validate (data sizes, n_epochs, batch_size)
  it,                \* epoch index
  b,                 \* batch index of the running loop
  mode,              \* module mode set by model.train() / model.eval()
  batch,             \* the slices taken for the current batch
  grads,             \* sign of the accumulated .grad of each estimator
  out,               \* the rollout of the current batch
  train_batch_loss,
  valid_batch_loss,
  training_loss,
  validation_loss,
  optSteps,          \* history: optimizer steps applied so far
  batchLog,          \* history: events of the current batch, in order
  epochLog           \* history: batches completed in the current epoch

fvars == <<fargs, fret>>
lossvars == <<train_batch_loss, valid_batch_loss, training_loss, validation_loss>>
tvars == <<tv, it, b, mode, batch, grads, out, lossvars, optSteps, batchLog, epochLog>>
vars == <<pc, model, fvars, tvars>>

NoNet == [absent |-> TRUE]
NoRet == [absent |-> TRUE]
NoArgs == [absent |-> TRUE]
NoBatch == [absent |-> TRUE]

\* Weights the constructor can leave in the estimators.
KNets == {[potential |-> FALSE, wx |-> a, wpar |-> 0, b1 |-> c, w2 |-> 1, b2 |-> c] :
            a \in {0 - 1, 1}, c \in {0, 1}}
VNets == {[potential |-> TRUE, wx |-> a, wpar |-> 1, b1 |-> c, w2 |-> 1, b2 |-> c] :
            a \in {0 - 1, 1}, c \in {0, 1}}
HNNs == {[wq |-> a, wp |-> d, wpar |-> 1, b1 |-> c, w2 |-> 1, b2 |-> c] :
            a \in {0 - 1, 1}, d \in {0 - 1, 1}, c \in {0, 1}}

\* adaptable_sympRNN.__init__
Models ==
  {[separable |-> TRUE, dt |-> d, K_net |-> k, V_net |-> v, HNN |-> NoNet] :
      d \in DtVals, k \in KNets, v \in VNets}
  \cup
  {[separable |-> FALSE, dt |-> d, K_net |-> NoNet, V_net |-> NoNet, HNN |-> h] :
      d \in DtVals, h \in HNNs}

Wrap(v) == ((v + MaxVal) % (2 * MaxVal + 1)) - MaxVal
Row(x, n) == [i \in 1..n |-> Wrap(x + i - 1)]

\* ---------------------------------------------------------- forward call
InitForward ==
  /\ pc = "forward_call"
  /\ model \in Models
  /\ \E n \in {1, MaxBatch}, x \in Vals, y \in Vals, z \in {0 - MaxVal, 0, MaxVal},
        T \in 0..MaxFinal, tr \in BOOLEAN :
        fargs = [q_initial |-> Row(x, n), p_initial |-> Row(y, n),
                 params |-> Row(z, n), final |-> T, training |-> tr]
  /\ fret = NoRet
  /\ tv = NoArgs /\ it = 0 /\ b = 0 /\ mode = "train"
  /\ batch = NoBatch /\ grads = 0 /\ out = NoRet
  /\ train_batch_loss = 0 /\ valid_batch_loss = 0
  /\ training_loss = <<>> /\ validation_loss = <<>>
  /\ optSteps = 0 /\ batchLog = <<>> /\ epochLog = <<>>

Forward ==
  /\ pc = "forward_call"
  /\ fret' = forward(model, fargs.q_initial, fargs.p_initial, fargs.params,
                     fargs.final, fargs.training)
  /\ pc' = "forward_done"
  /\ UNCHANGED <<model, fargs, tvars>>

NextForward == Forward

SpecForward == InitForward /\ [][NextForward]_vars

\* -------------------------------------------------------- train_validate
\* Losses are exact rationals [num, den]; NaN is 0/0.
Rat(n, d) == [num |-> n, den |-> d]
NaN == Rat(0, 0)
RatAdd(x, y) == Rat(x.num * y.den + y.num * x.den, x.den * y.den)
RatDivInt(x, n) == Rat(x.num, x.den * n)

RECURSIVE SumSeq(_)
SumSeq(xs) == IF xs = <<>> THEN 0 ELSE Head(xs) + SumSeq(Tail(xs))
SqErr(x, y) ==
  SumSeq([t \in 1..Len(x) |->
    SumSeq([i \in 1..Len(x[t]) |-> (x[t][i] - y[t][i]) * (x[t][i] - y[t][i])])])
\* nn.MSELoss over torch.cat((q, p), dim=2) against the concatenated targets.
MSELoss(q, p, q_output, p_output) ==
  Rat(SqErr(q, q_output) + SqErr(p, p_output),
      Len(q) * (IF Len(q) = 0 THEN 0 ELSE Len(q[1])) * 2)

\* The data sets handed to train_validate: N samples, horizon time.
DataSet(N, time, off) ==
  [ids |-> [i \in 1..N |-> i - 1],
   q_input |-> [i \in 1..N |-> Wrap(i + off)],
   p_input |-> [i \in 1..N |-> Wrap(i + off + 1)],
   params |-> [i \in 1..N |-> Wrap(2 * i + off)],
   q_output |-> [t \in 1..time |-> [i \in 1..N |-> Wrap(i + off + t)]],
   p_output |-> [t \in 1..time |-> [i \in 1..N |-> Wrap(i + off + 1 - t)]]]
train_data == DataSet(tv.N_train, tv.time, 0)
valid_data == DataSet(tv.N_valid, tv.time, 1)

num_train == tv.N_train \div tv.batch_size
num_valid == tv.N_valid \div tv.batch_size
time == tv.time

Min(x, y) == IF x < y THEN x ELSE y
\* Python xs[lo:hi] for 0 <= lo <= hi.
PySlice(xs, lo, hi) == SubSeq(xs, lo + 1, Min(hi, Len(xs)))
\* The slices [lo:hi] of one data set along its sample axis.
SliceData(data, lo, hi) ==
  [ids |-> PySlice(data.ids, lo, hi),
   q_input |-> PySlice(data.q_input, lo, hi),
   p_input |-> PySlice(data.p_input, lo, hi),
   params |-> PySlice(data.params, lo, hi),
   q_output |-> [t \in 1..Len(data.q_output) |-> PySlice(data.q_output[t], lo, hi)],
   p_output |-> [t \in 1..Len(data.p_output) |-> PySlice(data.p_output[t], lo, hi)]]
BatchSlice(data, bb) == SliceData(data, bb, bb + tv.batch_size)

\* optim.Adam.step: every weight that received a gradient moves one
\* learning-rate unit against the sign of its gradient; the output bias b2
\* never enters the loss and keeps its value.  s is the gradient sign.
AdamPartial(net, s) ==
  [net EXCEPT !.wx = @ - s, !.b1 = @ - s, !.w2 = @ - s,
              !.wpar = IF net.potential THEN @ - s ELSE @]
AdamHNN(net, s) ==
  [net EXCEPT !.wq = @ - s, !.wp = @ - s, !.wpar = @ - s, !.b1 = @ - s, !.w2 = @ - s]
adam_step(M, g) ==
  IF M.separable
  THEN [M EXCEPT !.K_net = AdamPartial(@, g), !.V_net = AdamPartial(@, g)]
  ELSE [M EXCEPT !.HNN = AdamHNN(@, g)]

\* loss.backward(): reverse-mode differentiation through the unrolled graph is
\* abstracted to the sign of the summed residual (prediction minus target).
Sign(x) == IF x > 0 THEN 1 ELSE IF x < 0 THEN 0 - 1 ELSE 0
Residual(x, y) ==
  SumSeq([t \in 1..Len(x) |-> SumSeq([i \in 1..Len(x[t]) |-> x[t][i] - y[t][i]])])
backward(q, p, q_output, p_output) ==
  Sign(Residual(q, q_output) + Residual(p, p_output))

TrainModels ==
  {m \in Models : /\ m.dt = 2
                  /\ m.separable => (m.K_net.wx = 1 /\ m.V_net.wx = 1
                                      /\ m.K_net.b1 = m.V_net.b1)
                  /\ ~m.separable => (m.HNN.wq = 1 /\ m.HNN.wp = 1)}

InitTrain ==
  /\ pc = "tv_call"
  /\ model \in TrainModels
  /\ fargs = NoArgs /\ fret = NoRet
  /\ \E nt \in 0..MaxN, nv \in 0..MaxN, ne \in 0..MaxEpochs,
        bs \in 1..MaxBatch, T \in 1..MaxTime :
        tv = [N_train |-> nt, N_valid |-> nv, n_epochs |-> ne,
              batch_size |-> bs, time |-> T]
  /\ it = 0 /\ b = 0 /\ mode = "train"
  /\ batch = NoBatch /\ grads = 0 /\ out = NoRet
  /\ train_batch_loss = 0 /\ valid_batch_loss = 0
  /\ training_loss = <<>> /\ validation_loss = <<>>
  /\ optSteps = 0 /\ batchLog = <<>> /\ epochLog = <<>>

TrainValidateStart ==
  /\ pc = "tv_call"
  /\ training_loss' = [e \in 1..tv.n_epochs |-> NaN]
  /\ validation_loss' = [e \in 1..tv.n_epochs |-> NaN]
  /\ it' = 0
  /\ pc' = "epoch_loop"
  /\ UNCHANGED <<model, fvars, tv, b, mode, batch, grads, out,
                 train_batch_loss, valid_batch_loss, optSteps, batchLog, epochLog>>

EpochLoop ==
  /\ pc = "epoch_loop"
  /\ IF it < tv.n_epochs
     THEN /\ train_batch_loss' = Rat(0, 1)
          /\ mode' = "train"
          /\ b' = 0
          /\ epochLog' = <<>>
          /\ pc' = "train_loop"
     ELSE /\ pc' = "tv_returned"
          /\ UNCHANGED <<train_batch_loss, mode, b, epochLog>>
  /\ UNCHANGED <<model, fvars, tv, it, batch, grads, out,
                 valid_batch_loss, training_loss, validation_loss, optSteps, batchLog>>

TrainLoop_short ==
  /\ pc = "train_loop"
  /\ IF b < num_train - 1
     THEN /\ batch' = BatchSlice(train_data, b)
          /\ batchLog' = <<>>
          /\ pc' = "train_zero_grad"
     ELSE /\ pc' = "train_mean"
          /\ UNCHANGED <<batch, batchLog>>
  /\ UNCHANGED <<model, fvars, tv, it, b, mode, grads, out, lossvars, optSteps, epochLog>>

TrainLoop ==
  /\ pc = "train_loop"
  /\ IF b < num_train
     THEN /\ batch' = BatchSlice(train_data, b)
          /\ batchLog' = <<>>
          /\ pc' = "train_zero_grad"
     ELSE /\ pc' = "train_mean"
          /\ UNCHANGED <<batch, batchLog>>
  /\ UNCHANGED <<model, fvars, tv, it, b, mode, grads, out, lossvars, optSteps, epochLog>>

TrainZeroGrad ==
  /\ pc = "train_zero_grad"
  /\ grads' = 0
  /\ batchLog' = Append(batchLog, "zero_grad")
  /\ pc' = "train_rollout"
  /\ UNCHANGED <<model, fvars, tv, it, b, mode, batch, out, lossvars, optSteps, epochLog>>

TrainRollout ==
  /\ pc = "train_rollout"
  /\ out' = forward(model, batch.q_input, batch.p_input, batch.params, time, TRUE)
  /\ batchLog' = Append(batchLog, "rollout")
  /\ pc' = "train_loss"
  /\ UNCHANGED <<model, fvars, tv, it, b, mode, batch, grads, lossvars, optSteps, epochLog>>

TrainLoss ==
  /\ pc = "train_loss"
  /\ train_batch_loss' =
       RatAdd(train_batch_loss, MSELoss(out.q, out.p, batch.q_output, batch.p_output))
  /\ batchLog' = Append(batchLog, "loss")
  /\ pc' = "train_backward"
  /\ UNCHANGED <<model, fvars, tv, it, b, mode, batch, grads, out,
                 valid_batch_loss, training_loss, validation_loss, optSteps, epochLog>>

TrainBackward ==
  /\ pc = "train_backward"
  /\ grads' = backward(out.q, out.p, batch.q_output, batch.p_output)
  /\ batchLog' = Append(batchLog, "backward")
  /\ pc' = "train_step"
  /\ UNCHANGED <<model, fvars, tv, it, b, mode, batch, out, lossvars, optSteps, epochLog>>

TrainStep ==
  /\ pc = "train_step"
  /\ model' = adam_step(model, grads)
  /\ optSteps' = optSteps + 1
  /\ batchLog' = Append(batchLog, "step")
  /\ epochLog' = Append(epochLog, <<"train", b>>)
  /\ b' = b + 1
  /\ pc' = "train_loop"
  /\ UNCHANGED <<fvars, tv, it, mode, batch, grads, out, lossvars>>

TrainMean ==
  /\ pc = "train_mean"
  /\ IF num_train = 0
     THEN /\ pc' = "tv_error"
          /\ UNCHANGED <<training_loss, valid_batch_loss, mode, b>>
     ELSE /\ training_loss' =
               [training_loss EXCEPT ![it + 1] = RatDivInt(train_batch_loss, num_train)]
          /\ valid_batch_loss' = Rat(0, 1)
          /\ mode' = "eval"
          /\ b' = 0
          /\ pc' = "valid_loop"
  /\ UNCHANGED <<model, fvars, tv, it, batch, grads, out, train_batch_loss,
                 validation_loss, optSteps, batchLog, epochLog>>

ValidLoop ==
  /\ pc = "valid_loop"
  /\ IF b < num_valid
     THEN /\ batch' = BatchSlice(valid_data, b)
          /\ batchLog' = <<>>
          /\ pc' = "valid_zero_grad"
     ELSE /\ pc' = "valid_mean"
          /\ UNCHANGED <<batch, batchLog>>
  /\ UNCHANGED <<model, fvars, tv, it, b, mode, grads, out, lossvars, optSteps, epochLog>>

ValidZeroGrad ==
  /\ pc = "valid_zero_grad"
  /\ grads' = 0
  /\ batchLog' = Append(batchLog, "zero_grad")
  /\ pc' = "valid_rollout"
  /\ UNCHANGED <<model, fvars, tv, it, b, mode, batch, out, lossvars, optSteps, epochLog>>

ValidRollout ==
  /\ pc = "valid_rollout"
  /\ out' = forward(model, batch.q_input, batch.p_input, batch.params, time, TRUE)
  /\ batchLog' = Append(batchLog, "rollout")
  /\ pc' = "valid_loss"
  /\ UNCHANGED <<model, fvars, tv, it, b, mode, batch, grads, lossvars, optSteps, epochLog>>

\* Variant: the validation batch also backpropagates and steps the optimizer.
ValidLoss_steps ==
  /\ pc = "valid_loss"
  /\ valid_batch_loss' =
       RatAdd(valid_batch_loss, MSELoss(out.q, out.p, batch.q_output, batch.p_output))
  /\ model' = adam_step(model, 1)
  /\ batchLog' = Append(batchLog, "loss")
  /\ epochLog' = Append(epochLog, <<"valid", b>>)
  /\ b' = b + 1
  /\ pc' = "valid_loop"
  /\ UNCHANGED <<fvars, tv, it, mode, batch, grads, out,
                 train_batch_loss, training_loss, validation_loss, optSteps>>

ValidLoss ==
  /\ pc = "valid_loss"
  /\ valid_batch_loss' =
       RatAdd(valid_batch_loss, MSELoss(out.q, out.p, batch.q_output, batch.p_output))
  /\ batchLog' = Append(batchLog, "loss")
  /\ epochLog' = Append(epochLog, <<"valid", b>>)
  /\ b' = b + 1
  /\ pc' = "valid_loop"
  /\ UNCHANGED <<model, fvars, tv, it, mode, batch, grads, out,
                 train_batch_loss, training_loss, validation_loss, optSteps>>

ValidMean ==
  /\ pc = "valid_mean"
  /\ IF num_valid = 0
     THEN /\ pc' = "tv_error"
          /\ UNCHANGED <<validation_loss, it>>
     ELSE /\ validation_loss' =
               [validation_loss EXCEPT ![it + 1] = RatDivInt(valid_batch_loss, num_valid)]
          /\ it' = it + 1
          /\ pc' = "epoch_loop"
  /\ UNCHANGED <<model, fvars, tv, b, mode, batch, grads, out, train_batch_loss,
                 valid_batch_loss, training_loss, optSteps, batchLog, epochLog>>

NextTrain ==
  \/ TrainValidateStart
  \/ EpochLoop
  \/ TrainLoop
  \/ TrainZeroGrad
  \/ TrainRollout
  \/ TrainLoss
  \/ TrainBackward
  \/ TrainStep
  \/ TrainMean
  \/ ValidLoop
  \/ ValidZeroGrad
  \/ ValidRollout
  \/ ValidLoss
  \/ ValidMean

SpecTrain == InitTrain /\ [][NextTrain]_vars

\* Either entry point of the module.
Init == InitForward \/ InitTrain
Next == NextForward \/ NextTrain
Spec == Init /\ [][Next]_vars

\* ------------------------------------------------------------ properties
\* State entering returned entry t (1-based): the initial condition for the
\* first entry, the previous returned entry otherwise.
InQ(t) == IF t = 1 THEN fargs.q_initial ELSE fret.q[t - 1]
InP(t) == IF t = 1 THEN fargs.p_initial ELSE fret.p[t - 1]
Done == pc = "forward_done"

dK_dp(p) == partial_HNN_forward(model.K_net, p, fargs.params, FALSE).g
minus_dV_dq(q) == partial_HNN_forward(model.V_net, q, fargs.params, FALSE).g
KofP(p) == partial_HNN_forward(model.K_net, p, fargs.params, FALSE).E
VofQ(q) == partial_HNN_forward(model.V_net, q, fargs.params, FALSE).E
dH_dp(q, p) == HNN_forward(model.HNN, q, p, fargs.params, FALSE).qdot
minus_dH_dq(q, p) == HNN_forward(model.HNN, q, p, fargs.params, FALSE).pdot
QHalf(t) == VAdd(InQ(t), VScale(Half(model.dt), dK_dp(InP(t))))
QHalf2(t) == VAdd(InQ(t), VScale(Half(model.dt), dH_dp(InQ(t), InP(t))))
PNext2(t) == VAdd(InP(t), VScale(model.dt, minus_dH_dq(QHalf2(t), InP(t))))

\* C1: for every horizon T >= 1 forward returns q, p and energy traces of
\* exactly T entries; entry 0 is one integrator step applied to (q0, p0) and
\* entry t is one integrator step applied to entry t-1 with the same params.
C1_RolloutShape ==
  (Done /\ fargs.final >= 1) =>
    /\ Len(fret.q) = fargs.final
    /\ Len(fret.p) = fargs.final
    /\ Len(fret.H) = fargs.final
    /\ \A t \in 1..fargs.final :
         LET r == forward_cell(model, InQ(t), InP(t), fargs.params, fargs.training)
         IN  fret.q[t] = r.q /\ fret.p[t] = r.p /\ fret.H[t] = r.H

C1_Witness ==
  /\ Done /\ fargs.final >= 2
  /\ fret.q[1] # fargs.q_initial
  /\ fret.q[2] # fret.q[1]

\* C2: the separable step computes q_half = q + dt/2 * dK/dp(p), then
\* p_next = p + dt * (-dV/dq)(q_half, params), then
\* q_next = q_half + dt/2 * dK/dp(p_next), and returns this q_next, p_next;
\* the estimators are evaluated at p, q_half, p_next in that order.
C2_SeparableStep ==
  (Done /\ model.separable) =>
    \A t \in 1..fargs.final :
      LET q_half == QHalf(t)
          p_next == VAdd(InP(t), VScale(model.dt, minus_dV_dq(q_half)))
          q_next == VAdd(q_half, VScale(Half(model.dt), dK_dp(p_next)))
      IN  /\ fret.p[t] = p_next
          /\ fret.q[t] = q_next
          /\ SubSeq(fret.calls, 4 * t - 3, 4 * t - 1)
               = <<CallK(InP(t)), CallV(q_half, fargs.params), CallK(p_next)>>

C2_Witness ==
  /\ Done /\ model.separable /\ fargs.final >= 1
  /\ minus_dV_dq(QHalf(1)) # minus_dV_dq(InQ(1))
  /\ minus_dV_dq(QHalf(1)) # minus_dV_dq(fret.q[1])
  /\ dK_dp(fret.p[1]) # dK_dp(InP(1))

\* C3 as stated: the energy of a separable step is K at the momentum entering
\* the step plus V at the final position of the step.
C3_EnergyFirstK ==
  (Done /\ model.separable) =>
    \A t \in 1..fargs.final :
      fret.H[t] = VAdd(KofP(InP(t)), VofQ(fret.q[t]))

\* C3 amended: the energy of a separable step is K at the momentum leaving
\* the step (the second kinetic evaluation) plus V at the final position.
C3_EnergyLastK ==
  (Done /\ model.separable) =>
    \A t \in 1..fargs.final :
      fret.H[t] = VAdd(KofP(fret.p[t]), VofQ(fret.q[t]))

C3_Witness ==
  /\ Done /\ model.separable /\ fargs.final >= 1
  /\ KofP(fret.p[1]) # KofP(InP(1))

\* C8: the non-separable step calls the joint estimator exactly three times,
\* at (q, p), (q_half, p), (q_half, p_next), each substep using the gradient
\* of the call made at that substep, and returns q_next, p_next.
C8_NonSeparableStep ==
  (Done /\ ~model.separable) =>
    /\ Len(fret.calls) = 3 * fargs.final
    /\ \A t \in 1..fargs.final :
         LET q_half == QHalf2(t)
             p_next == PNext2(t)
             q_next == VAdd(q_half, VScale(Half(model.dt), dH_dp(q_half, p_next)))
         IN  /\ fret.p[t] = p_next
             /\ fret.q[t] = q_next
             /\ SubSeq(fret.calls, 3 * t - 2, 3 * t)
                  = <<CallH(InQ(t), InP(t), fargs.params),
                      CallH(q_half, InP(t), fargs.params),
                      CallH(q_half, p_next, fargs.params)>>

C8_Witness ==
  /\ Done /\ ~model.separable /\ fargs.final >= 1
  /\ dH_dp(QHalf2(1), PNext2(1)) # dH_dp(InQ(1), InP(1))
  /\ minus_dH_dq(QHalf2(1), InP(1)) # minus_dH_dq(InQ(1), InP(1))

\* C9: a rollout with horizon 0 invokes neither the integrator cell nor any
\* estimator and returns empty energy, q and p trajectories.
C9_ZeroHorizon ==
  (Done /\ fargs.final = 0) =>
    /\ fret.cells = 0
    /\ fret.calls = <<>>
    /\ Len(fret.H) = 0 /\ Len(fret.q) = 0 /\ Len(fret.p) = 0

C9_Witness == Done /\ fargs.final = 0

\* C10: training and inference mode compute the same values: every step of
\* the rollout returns the same energy, q_next and p_next with the same
\* estimator evaluation points in both modes (only graph retention differs),
\* and so does the whole rollout.
C10_ModeEquivalence ==
  Done =>
    /\ \A t \in 1..fargs.final :
         LET tr == forward_cell(model, InQ(t), InP(t), fargs.params, TRUE)
             inf == forward_cell(model, InQ(t), InP(t), fargs.params, FALSE)
         IN  /\ tr.H = inf.H /\ tr.q = inf.q /\ tr.p = inf.p
             /\ tr.calls = inf.calls
             /\ tr.graph /\ ~inf.graph
    /\ LET other == forward(model, fargs.q_initial, fargs.p_initial,
                            fargs.params, fargs.final, ~fargs.training)
       IN  /\ other.H = fret.H /\ other.q = fret.q /\ other.p = fret.p
           /\ other.calls = fret.calls

C10_Witness ==
  /\ Done /\ ~fargs.training /\ fargs.final >= 2
  /\ fret.q[2] # fret.q[1] /\ fret.p[2] # fret.p[1]

CanonicalBatch == <<"zero_grad", "rollout", "loss", "backward", "step">>
IsPrefix(xs, ys) == Len(xs) <= Len(ys) /\ SubSeq(ys, 1, Len(xs)) = xs
TrainPcs == {"train_zero_grad", "train_rollout", "train_loss", "train_backward",
             "train_step"}
ValidPcs == {"valid_loop", "valid_zero_grad", "valid_rollout", "valid_loss",
             "valid_mean"}
\* Positions at which batch holds the slices of batch number b.
BatchPcs == TrainPcs \cup {"valid_zero_grad", "valid_rollout", "valid_loss"}
TrainedBatches == [k \in 1..num_train |-> <<"train", k - 1>>]

\* C4: with num_train >= 1 and num_valid >= 1, each training batch runs zero
\* gradients, rollout over the ground-truth horizon, loss, backpropagation and
\* exactly one optimizer step, in that order; every epoch processes exactly
\* num_train training batches, all of them before any validation batch; a call
\* that returns has applied n_epochs * num_train optimizer steps.
C4_TrainingOrder ==
  (num_train >= 1 /\ num_valid >= 1) =>
    /\ pc \in TrainPcs => (IsPrefix(batchLog, CanonicalBatch) /\ batchLog # CanonicalBatch)
    /\ (pc = "train_loop" /\ b > 0) => batchLog = CanonicalBatch
    /\ pc \in {"train_loss", "train_backward", "train_step"} =>
         (Len(out.q) = Len(batch.q_output) /\ Len(out.p) = Len(batch.p_output))
    /\ pc = "train_loop" => optSteps = it * num_train + b
    /\ pc \in ValidPcs =>
         /\ optSteps = (it + 1) * num_train
         /\ IsPrefix(TrainedBatches, epochLog)
         /\ \A k \in (num_train + 1)..Len(epochLog) : epochLog[k][1] = "valid"
    /\ pc = "epoch_loop" => optSteps = it * num_train
    /\ pc = "tv_returned" => optSteps = tv.n_epochs * num_train

C4_Witness ==
  /\ pc = "tv_returned"
  /\ num_train >= 2 /\ num_valid >= 1 /\ tv.n_epochs >= 2
  /\ optSteps >= 4

\* C5: estimator weights change only at the optimizer step of a training
\* batch; rollouts and the validation pass leave them unchanged and apply no
\* optimizer step.
C5_WeightsFrame ==
  [][(model' # model \/ optSteps' # optSteps) => pc = "train_step"]_vars

C5_Witness ==
  /\ pc = "valid_mean" /\ b >= 1
  /\ optSteps >= 1
  /\ model \notin Models

\* C6: when num_train = 0 or num_valid = 0 the call never returns loss arrays
\* and no optimizer step has been applied when it fails.
C6_ConfigError ==
  (num_train = 0 \/ num_valid = 0) =>
    /\ pc # "tv_returned"
    /\ optSteps = 0

\* C7: batch b of an epoch holds the samples b*batch_size .. (b+1)*batch_size-1.
C7_BatchAligned ==
  pc \in BatchPcs =>
    batch.ids = [k \in 1..tv.batch_size |-> b * tv.batch_size + k - 1]

====
